---- MODULE Spec2Model ----
(***************************************************************************)
(* Stroke Data Dashboard (src/stroke.py).                                  *)
(*                                                                         *)
(* The script is run top to bottom on every interaction: load_data()       *)
(* (cached), the three sidebar widgets, the filter, the KPI cards, five    *)
(* charts and the Insights text.  The model keeps the script's globals     *)
(* (df, age_range, selected_genders, selected_smoking, filtered_df, the    *)
(* chart tables), the two text elements of the page (KPI cards, Insights)  *)
(* and the position of the script.                                         *)
(*                                                                         *)
(* Numbers: an age is held in tenths of a year (25 is age 2.5), so that    *)
(* int() on a fractional age is a real truncation; glucose and BMI are     *)
(* whole numbers; a missing float (NaN) is the empty sequence <<>> and a   *)
(* present one is <<v>>.  A missing label is the string NaN.  A value      *)
(* formatted with {:.2f} is held in hundredths.                            *)
(***************************************************************************)
EXTENDS Integers, Sequences, FiniteSets, TLC

\* Largest number of rows of the CSV file.
MaxRows == 3

\* A missing label, as produced by Series.map for a code outside the table.
NaN == "NaN"

\* --- load_data: lookup tables -------------------------------------------
gender_map == (0 :> "Female") @@ (1 :> "Male")

work_type_map ==
    (0 :> "Never Worked") @@ (1 :> "Private") @@ (2 :> "Self-employed")
    @@ (3 :> "Govt Job") @@ (4 :> "Children")

residence_type_map == (0 :> "Rural") @@ (1 :> "Urban")

smoking_status_map ==
    (0 :> "Unknown") @@ (1 :> "Formerly Smoked") @@ (2 :> "Never Smoked")
    @@ (3 :> "Smokes")

\* Series.map(dict): a value that is not a key becomes NaN.
MapLabel(m, c) == IF c \in DOMAIN m THEN m[c] ELSE NaN

\* --- the rows the CSV file is drawn from --------------------------------
\* Raw rows (integer-coded categoricals) without the ID column.
Row(g, age, h, d, w, res, glu, bmi, smoke, stroke) ==
    [Gender |-> g, Age |-> age, Hypertension |-> h, HeartDisease |-> d,
     EverMarried |-> 1, WorkType |-> w, ResidenceType |-> res,
     Glucose |-> glu, BMI |-> bmi, Smoking |-> smoke, Stroke |-> stroke]

Patients ==
    { Row(0, 10, 0, 0, 1, 0,  90, <<20>>, 2, 0),
      Row(1, 20, 1, 1, 2, 1, 150, <<30>>, 3, 1),
      Row(1, 15, 1, 0, 3, 1, 120, <<>>,   1, 0),
      Row(2, 10, 0, 1, 5, 2,  80, <<22>>, 2, 1),
      Row(0, 20, 1, 1, 0, 1,  95, <<28>>, 4, 0) }

RECURSIVE SeqsUpTo(_, _)
SeqsUpTo(S, n) ==
    IF n = 0 THEN { <<>> }
    ELSE LET shorter == SeqsUpTo(S, n - 1)
         IN  shorter \cup { Append(s, x) : s \in shorter, x \in S }

\* The ID column is the row's position in the file.
WithID(s) == [i \in 1..Len(s) |-> [ID |-> i] @@ s[i]]

CsvFiles == { WithID(s) : s \in SeqsUpTo(Patients, MaxRows) \ { <<>> } }

\* --- load_data ----------------------------------------------------------
load_data(raw) ==
    [i \in 1..Len(raw) |->
        [ID            |-> raw[i].ID,
         Gender        |-> MapLabel(gender_map, raw[i].Gender),
         Age           |-> raw[i].Age,
         Hypertension  |-> raw[i].Hypertension,
         HeartDisease  |-> raw[i].HeartDisease,
         EverMarried   |-> raw[i].EverMarried,
         WorkType      |-> MapLabel(work_type_map, raw[i].WorkType),
         ResidenceType |-> MapLabel(residence_type_map, raw[i].ResidenceType),
         Glucose       |-> raw[i].Glucose,
         BMI           |-> raw[i].BMI,
         Smoking       |-> MapLabel(smoking_status_map, raw[i].Smoking),
         Stroke        |-> raw[i].Stroke]]

\* --- column helpers -----------------------------------------------------
Column(d, col) == { d[i][col] : i \in 1..Len(d) }

\* Series.dropna() on a label column.
DropNa(S) == S \ { NaN }

\* int(x) for a non-negative age held in tenths.
ToInt(x) == x \div 10

\* An integer slider value on the scale of the Age column.
AsAge(n) == n * 10

AgeMin(d) == CHOOSE x \in Column(d, "Age") : \A y \in Column(d, "Age") : x <= y

AgeMax(d) == CHOOSE x \in Column(d, "Age") : \A y \in Column(d, "Age") : x >= y

\* --- sidebar widgets ----------------------------------------------------
SliderMin(d) == ToInt(AgeMin(d))

SliderMax(d) == ToInt(AgeMax(d))

SliderDefault(d) == << SliderMin(d), SliderMax(d) >>

SliderValues(d) ==
    { r \in (SliderMin(d)..SliderMax(d)) \X (SliderMin(d)..SliderMax(d)) : r[1] <= r[2] }

GenderOptionsKeepNa(d) == Column(d, "Gender")

GenderOptions(d) == DropNa(Column(d, "Gender"))

SmokingOptions(d) == DropNa(Column(d, "Smoking"))

\* --- filter -------------------------------------------------------------
AgeInRangeOpenEnd(age, ar) == age >= AsAge(ar[1]) /\ age < AsAge(ar[2])

AgeInRange(age, ar) == age >= AsAge(ar[1]) /\ age <= AsAge(ar[2])

\* Series.isin(values); a NaN among the values matches a NaN label.
isin(x, values) == x \in values

Mask(d, ar, G, S) ==
    [i \in 1..Len(d) |->
        AgeInRange(d[i].Age, ar) /\ isin(d[i].Gender, G) /\ isin(d[i].Smoking, S)]

RECURSIVE BoolIndex(_, _, _)
BoolIndex(d, mask, i) ==
    IF i > Len(d) THEN <<>>
    ELSE (IF mask[i] THEN << d[i] >> ELSE <<>>) \o BoolIndex(d, mask, i + 1)

FilterRows(d, ar, G, S) == BoolIndex(d, Mask(d, ar, G, S), 1)

\* --- aggregates ---------------------------------------------------------
RECURSIVE SumCol(_, _)
SumCol(d, col) ==
    IF Len(d) = 0 THEN 0 ELSE d[1][col] + SumCol(Tail(d), col)

\* Sum and count of a float column that may hold NaN (skipped).
RECURSIVE SumPresent(_, _)
SumPresent(d, col) ==
    IF Len(d) = 0 THEN 0
    ELSE (IF Len(d[1][col]) = 1 THEN d[1][col][1] ELSE 0) + SumPresent(Tail(d), col)

CountPresent(d, col) == Cardinality({ i \in 1..Len(d) : Len(d[i][col]) = 1 })

\* --- float64 arithmetic and "{:.2f}" ------------------------------------
\* A mean is the float64 quotient sum / count, and "{:.2f}" prints the
\* decimal nearest to that double's exact value, an exact tie going to the
\* even digit.  A double is [m |-> its 53 mantissa bits, most significant
\* first, x |-> the exponent of the last bit]: its value is m * 2^x.
Zeros(k) == [i \in 1..k |-> 0]

RECURSIVE BitsToInt(_)
BitsToInt(bits) ==
    IF Len(bits) = 0 THEN 0
    ELSE 2 * BitsToInt(SubSeq(bits, 1, Len(bits) - 1)) + bits[Len(bits)]

\* k * bits for 0 <= k < 128, from the last bit up with a running carry;
\* the result is 7 bits longer.
RECURSIVE MulBits(_, _, _, _)
MulBits(bits, k, i, carry) ==
    IF i = 0 THEN [j \in 1..7 |-> (carry \div 2 ^ (7 - j)) % 2]
    ELSE LET t == bits[i] * k + carry
             c == t \div 2
         IN  IF c >= 0 THEN MulBits(bits, k, i - 1, c) \o << t % 2 >> ELSE <<>>

\* bits + 1; the result is one bit longer.
RECURSIVE IncBits(_, _, _)
IncBits(bits, i, carry) ==
    IF i = 0 THEN << carry >>
    ELSE LET t == bits[i] + carry
             c == t \div 2
         IN  IF c >= 0 THEN IncBits(bits, i - 1, c) \o << t % 2 >> ELSE <<>>

RECURSIVE StripZeros(_)
StripZeros(bits) ==
    IF Len(bits) > 0 /\ bits[1] = 0 THEN StripZeros(Tail(bits)) ELSE bits

\* 100 * m, exactly.
Mul100(m) == MulBits(m, 100, Len(m), 0)

\* Round a bit string with a leading 1 (value bits * 2^x, plus something
\* below the last bit when sticky) to 53 bits, ties to even.
Round53(bits, sticky, x) ==
    LET keep == SubSeq(bits, 1, 53)
        rest == SubSeq(bits, 54, Len(bits))
        half == Len(rest) > 0 /\ rest[1] = 1
        low  == sticky \/ \E i \in 2..Len(rest) : rest[i] = 1
        up   == half /\ (low \/ keep[53] = 1)
        inc  == IncBits(keep, 53, 1)
        e    == x + Len(rest)
    IN  IF ~up THEN [m |-> keep, x |-> e]
        ELSE IF inc[1] = 1 THEN [m |-> SubSeq(inc, 1, 53), x |-> e + 1]
        ELSE [m |-> Tail(inc), x |-> e]

\* Scale a / b into [1, 2): the result is << a', b', e >> with
\* a / b = (a' / b') * 2^e.
RECURSIVE Normalise(_, _, _)
Normalise(a, b, e) ==
    IF a >= 2 * b THEN Normalise(a, 2 * b, e + 1)
    ELSE IF a < b THEN Normalise(2 * a, b, e - 1)
    ELSE << a, b, e >>

\* The next k bits of the binary expansion of r / b, for r < b.
RECURSIVE DivBits(_, _, _)
DivBits(r, b, k) ==
    IF k = 0 THEN <<>>
    ELSE IF 2 * r >= b THEN << 1 >> \o DivBits(2 * r - b, b, k - 1)
    ELSE << 0 >> \o DivBits(2 * r, b, k - 1)

RECURSIVE DivRem(_, _, _)
DivRem(r, b, k) ==
    IF k = 0 THEN r
    ELSE IF 2 * r >= b THEN DivRem(2 * r - b, b, k - 1)
    ELSE DivRem(2 * r, b, k - 1)

\* The float64 quotient s / n, for s > 0 and n > 0.
Double(s, n) ==
    LET f == Normalise(s, n, 0)
    IN  Round53(<< 1 >> \o DivBits(f[1] - f[2], f[2], 53),
                DivRem(f[1] - f[2], f[2], 53) > 0,
                f[3] - 53)

\* The float64 product 100 * d.
Times100(d) == Round53(StripZeros(Mul100(d.m)), FALSE, d.x)

\* "{:.2f}".format(d) in hundredths, for a double below 2^52 / 100.
Hundredths(d) ==
    LET q     == Mul100(d.m)
        f     == 0 - d.x
        bits  == IF Len(q) > f THEN q ELSE Zeros(f + 1 - Len(q)) \o q
        whole == BitsToInt(SubSeq(bits, 1, Len(bits) - f))
        frac  == SubSeq(bits, Len(bits) - f + 1, Len(bits))
        low   == \E i \in 2..Len(frac) : frac[i] = 1
    IN  IF frac[1] = 1 /\ (low \/ whole % 2 = 1) THEN whole + 1 ELSE whole

\* The hundredths nearest to the fraction p / n when it is not halfway
\* between two of them.  The double computed from p / n is within 2^-52 of
\* it (relative), less than the 1 / (2 n) that separates p / n from a
\* halfway point, so the print of the double is this value.
Nearest(p, n) == (2 * p + n) \div (2 * n)

Halfway(p, n) == (2 * p) % n = 0 /\ p % n # 0

\* "{:.2f}".format(s / n), in hundredths; <<>> is "nan".
Fmt2(s, n) ==
    IF n = 0 THEN <<>>
    ELSE IF s = 0 THEN << 0 >>
    ELSE IF Halfway(100 * s, n) THEN << Hundredths(Double(s, n)) >>
    ELSE << Nearest(100 * s, n) >>

\* "{:.2f}".format(100 * (s / n)), in hundredths; <<>> is "nan".
Pct2(s, n) ==
    IF n = 0 THEN <<>>
    ELSE IF s = 0 THEN << 0 >>
    ELSE IF Halfway(10000 * s, n) THEN << Hundredths(Times100(Double(s, n))) >>
    ELSE << Nearest(10000 * s, n) >>

CountWhere(d, col, v) == Cardinality({ i \in 1..Len(d) : d[i][col] = v })

\* --- chart 1: filtered_df['Gender'].value_counts() ----------------------
value_counts(d, col) ==
    [v \in DropNa(Column(d, col)) |-> CountWhere(d, col, v)]

\* --- chart 2: groupby(['Age','Stroke']).size().unstack(fill_value=0) ----
\* One row per age of the view, one column per stroke outcome of the view.
StrokeByAge(d) ==
    [index   |-> Column(d, "Age"),
     columns |-> Column(d, "Stroke"),
     cell    |-> [a \in Column(d, "Age") |->
                    [s \in Column(d, "Stroke") |->
                        Cardinality({ i \in 1..Len(d) :
                                        d[i].Age = a /\ d[i].Stroke = s })]]]

\* The y argument of px.bar.
bar_y == << 0, 1 >>

\* plotly: y is a list of column references only if every element names a
\* column of the data frame; otherwise it is taken as a column of values.
IsColList(columns, arg) == \A k \in 1..Len(arg) : arg[k] \in columns

\* px.bar raises ValueError ("All arguments should have the same length")
\* when y is taken as values and its length differs from the non-zero
\* length of x, the table's index.
px_bar_raises(table) ==
    /\ ~IsColList(table.columns, bar_y)
    /\ Cardinality(table.index) # 0
    /\ Len(bar_y) # Cardinality(table.index)

\* --- chart 3: counts ----------------------------------------------------
NeitherOnlyHypertension(d) == Len(d) - SumCol(d, "Hypertension")

NeitherExact(d) ==
    Cardinality({ i \in 1..Len(d) : d[i].Hypertension = 0 /\ d[i].HeartDisease = 0 })

Neither(d) == Len(d) - SumCol(d, "Hypertension") - SumCol(d, "HeartDisease")

\* list(counts.values()): Hypertension, Heart Disease, Neither.
Counts(d) == << SumCol(d, "Hypertension"), SumCol(d, "HeartDisease"), Neither(d) >>

\* --- chart 4: groupby('Age')['Avg Glucose Level'].mean() ----------------
\* The mean of each age is kept as << sum, count >>.
RECURSIVE RowsWhere(_, _, _)
RowsWhere(d, col, v) ==
    IF Len(d) = 0 THEN <<>>
    ELSE (IF d[1][col] = v THEN << d[1] >> ELSE <<>>) \o RowsWhere(Tail(d), col, v)

AvgGlucoseByAge(d) ==
    [a \in Column(d, "Age") |->
        << SumCol(RowsWhere(d, "Age", a), "Glucose"), Len(RowsWhere(d, "Age", a)) >>]

\* --- chart 5: px.box(x='Gender', y='BMI') -------------------------------
\* The BMI values of each gender, in row order (missing ones as <<>>).
BmiByGender(d) ==
    [g \in Column(d, "Gender") |->
        [k \in 1..Len(RowsWhere(d, "Gender", g)) |-> RowsWhere(d, "Gender", g)[k].BMI]]

\* --- KPI cards ----------------------------------------------------------
\* Total Patients, Average Glucose Level, Average BMI, Stroke Cases.
\* The {:,} format of a count below 1000 is its decimal value.
KpiValues(d) ==
    << Len(d),
       Fmt2(SumCol(d, "Glucose"), Len(d)),
       Fmt2(SumPresent(d, "BMI"), CountPresent(d, "BMI")),
       SumCol(d, "Stroke") >>

\* --- Insights -----------------------------------------------------------
\* Series.mode(): the most frequent non-NaN values, sorted.
SortedLabels == << "Formerly Smoked", "Never Smoked", "Smokes", "Unknown" >>

Modes(d, col) ==
    { v \in DropNa(Column(d, col)) :
        \A w \in DropNa(Column(d, col)) : CountWhere(d, col, v) >= CountWhere(d, col, w) }

\* mode()[0] raises KeyError on an empty result.
mode_raises(d, col) == Modes(d, col) = {}

ModeFirst(d, col) ==
    SortedLabels[CHOOSE k \in 1..Len(SortedLabels) :
                    /\ SortedLabels[k] \in Modes(d, col)
                    /\ \A j \in 1..(k - 1) : SortedLabels[j] \notin Modes(d, col)]

InsightValues(d) ==
    << Fmt2(SumCol(d, "Glucose"), Len(d)),
       Fmt2(SumPresent(d, "BMI"), CountPresent(d, "BMI")),
       << ModeFirst(d, "Smoking") >>,
       Pct2(SumCol(d, "Hypertension"), Len(d)),
       Pct2(SumCol(d, "HeartDisease"), Len(d)),
       Pct2(SumCol(d, "Stroke"), Len(d)) >>

\* --- state --------------------------------------------------------------
VARIABLES
    csv,                \* the rows of STROKE_HEALTHCARE_CLEANED_DATA.csv
    df,                 \* load_data()
    age_range,          \* slider value << a, b >>
    selected_genders,   \* multiselect value
    selected_smoking,   \* multiselect value
    filtered_df,
    kpi_cards,          \* the four metric cards on the page: << v >>, or <<>> if not shown yet
    gender_counts,
    stroke_by_age,
    counts,
    avg_glucose_by_age,
    bmi_by_gender,
    insights,           \* the Insights values on the page, <<>> before the first
    exception,          \* "None", or the error that stopped the script
    pc                  \* the statement group the script is about to run

vars == << csv, df, age_range, selected_genders, selected_smoking, filtered_df,
           kpi_cards, gender_counts, stroke_by_age, counts, avg_glucose_by_age,
           bmi_by_gender, insights, exception, pc >>

Steps == << "sidebar", "filter", "kpi_total", "kpi_glucose", "kpi_bmi",
            "kpi_stroke", "gender", "stroke_age", "hyp_heart", "glucose",
            "bmi", "insights", "done" >>

StepNo(s) == CHOOSE k \in 1..Len(Steps) : Steps[k] = s

\* The statement group ran to its end in this pass.
Done(step) == StepNo(pc) > StepNo(step)

\* The statement group's table was built in this pass (its chart call may
\* then have raised).
Built(step) == Done(step) \/ (pc = step /\ exception # "None")

Running == exception = "None"

\* The script's names have no value at the start of a pass.
charts_unset ==
    /\ gender_counts' = value_counts(<<>>, "Gender")
    /\ stroke_by_age' = StrokeByAge(<<>>)
    /\ counts' = <<>>
    /\ avg_glucose_by_age' = AvgGlucoseByAge(<<>>)
    /\ bmi_by_gender' = BmiByGender(<<>>)

\* First pass: the file is loaded and the widgets return their defaults.
Init ==
    /\ csv \in CsvFiles
    /\ df = load_data(csv)
    /\ age_range = SliderDefault(df)
    /\ selected_genders = GenderOptions(df)
    /\ selected_smoking = SmokingOptions(df)
    /\ filtered_df = <<>>
    /\ kpi_cards = << <<>>, <<>>, <<>>, <<>> >>
    /\ gender_counts = value_counts(<<>>, "Gender")
    /\ stroke_by_age = StrokeByAge(<<>>)
    /\ counts = <<>>
    /\ avg_glucose_by_age = AvgGlucoseByAge(<<>>)
    /\ bmi_by_gender = BmiByGender(<<>>)
    /\ insights = <<>>
    /\ exception = "None"
    /\ pc = "filter"

\* A rerun is requested (a widget changed, or the user asked for one): the
\* running pass, if any, is stopped where it is and the script starts again
\* from the top with no name bound.  The page keeps the cards and the
\* Insights text it shows, and the cache keeps the loaded table.
Restart ==
    /\ pc # "sidebar"
    /\ age_range' = <<>>
    /\ selected_genders' = {}
    /\ selected_smoking' = {}
    /\ filtered_df' = <<>>
    /\ charts_unset
    /\ exception' = "None"
    /\ pc' = "sidebar"
    /\ UNCHANGED << csv, df, kpi_cards, insights >>

\* Lines 29-50 of a rerun: load_data() returns the cached table and each
\* widget returns the value the user has left it at, any value it offers.
Sidebar ==
    /\ Running /\ pc = "sidebar"
    /\ df' = load_data(csv)
    /\ age_range' \in SliderValues(df')
    /\ selected_genders' \in SUBSET GenderOptions(df')
    /\ selected_smoking' \in SUBSET SmokingOptions(df')
    /\ pc' = "filter"
    /\ UNCHANGED << csv, filtered_df, kpi_cards, gender_counts, stroke_by_age,
                    counts, avg_glucose_by_age, bmi_by_gender, insights,
                    exception >>

ApplyFilterInPlace ==
    /\ Running /\ pc = "filter"
    /\ filtered_df' = FilterRows(df, age_range, selected_genders, selected_smoking)
    /\ df' = filtered_df'
    /\ pc' = "kpi_total"
    /\ UNCHANGED << csv, age_range, selected_genders, selected_smoking,
                    kpi_cards, gender_counts, stroke_by_age, counts,
                    avg_glucose_by_age, bmi_by_gender, insights, exception >>

ApplyFilter ==
    /\ Running /\ pc = "filter"
    /\ filtered_df' = FilterRows(df, age_range, selected_genders, selected_smoking)
    /\ pc' = "kpi_total"
    /\ UNCHANGED << csv, df, age_range, selected_genders, selected_smoking,
                    kpi_cards, gender_counts, stroke_by_age, counts,
                    avg_glucose_by_age, bmi_by_gender, insights, exception >>

\* colN.metric(...): card i of the page shows value i computed from d.
Metric(i, from, to, d) ==
    /\ Running /\ pc = from
    /\ kpi_cards' = [kpi_cards EXCEPT ![i] = << KpiValues(d)[i] >>]
    /\ pc' = to
    /\ UNCHANGED << csv, df, age_range, selected_genders, selected_smoking,
                    filtered_df, gender_counts, stroke_by_age, counts,
                    avg_glucose_by_age, bmi_by_gender, insights, exception >>

TotalPatientsCard == Metric(1, "kpi_total", "kpi_glucose", df)

AverageGlucoseCard == Metric(2, "kpi_glucose", "kpi_bmi", df)

AverageBmiCard == Metric(3, "kpi_bmi", "kpi_stroke", df)

StrokeCasesCard == Metric(4, "kpi_stroke", "gender", df)

ChartGender ==
    /\ Running /\ pc = "gender"
    /\ gender_counts' = value_counts(filtered_df, "Gender")
    /\ pc' = "stroke_age"
    /\ UNCHANGED << csv, df, age_range, selected_genders, selected_smoking,
                    filtered_df, kpi_cards, stroke_by_age, counts,
                    avg_glucose_by_age, bmi_by_gender, insights, exception >>

\* Lines 84-92.  When px.bar raises, the pass ends there: the page shows the
\* exception after the elements this pass has drawn, and what an earlier pass
\* drew below that point (the Insights text) is removed.
ChartStrokeAge ==
    /\ Running /\ pc = "stroke_age"
    /\ stroke_by_age' = StrokeByAge(filtered_df)
    /\ IF px_bar_raises(stroke_by_age')
         THEN exception' = "ValueError" /\ pc' = pc /\ insights' = <<>>
         ELSE exception' = exception /\ pc' = "hyp_heart" /\ insights' = insights
    /\ UNCHANGED << csv, df, age_range, selected_genders, selected_smoking,
                    filtered_df, kpi_cards, gender_counts, counts,
                    avg_glucose_by_age, bmi_by_gender >>

ChartHypertensionHeart ==
    /\ Running /\ pc = "hyp_heart"
    /\ counts' = Counts(filtered_df)
    /\ pc' = "glucose"
    /\ UNCHANGED << csv, df, age_range, selected_genders, selected_smoking,
                    filtered_df, kpi_cards, gender_counts, stroke_by_age,
                    avg_glucose_by_age, bmi_by_gender, insights, exception >>

ChartGlucoseAge ==
    /\ Running /\ pc = "glucose"
    /\ avg_glucose_by_age' = AvgGlucoseByAge(filtered_df)
    /\ pc' = "bmi"
    /\ UNCHANGED << csv, df, age_range, selected_genders, selected_smoking,
                    filtered_df, kpi_cards, gender_counts, stroke_by_age,
                    counts, bmi_by_gender, insights, exception >>

ChartBmiGender ==
    /\ Running /\ pc = "bmi"
    /\ bmi_by_gender' = BmiByGender(filtered_df)
    /\ pc' = "insights"
    /\ UNCHANGED << csv, df, age_range, selected_genders, selected_smoking,
                    filtered_df, kpi_cards, gender_counts, stroke_by_age,
                    counts, avg_glucose_by_age, insights, exception >>

Insights ==
    /\ Running /\ pc = "insights"
    /\ IF mode_raises(df, "Smoking")
         THEN exception' = "KeyError" /\ pc' = pc /\ insights' = <<>>
         ELSE exception' = exception /\ pc' = "done" /\ insights' = InsightValues(df)
    /\ UNCHANGED << csv, df, age_range, selected_genders, selected_smoking,
                    filtered_df, kpi_cards, gender_counts, stroke_by_age,
                    counts, avg_glucose_by_age, bmi_by_gender >>

Next ==
    \/ Restart
    \/ Sidebar
    \/ ApplyFilter
    \/ TotalPatientsCard
    \/ AverageGlucoseCard
    \/ AverageBmiCard
    \/ StrokeCasesCard
    \/ ChartGender
    \/ ChartStrokeAge
    \/ ChartHypertensionHeart
    \/ ChartGlucoseAge
    \/ ChartBmiGender
    \/ Insights

Spec == Init /\ [][Next]_vars

\* --- properties ---------------------------------------------------------
Filtered == Done("filter")

\* The filter condition as the dashboard states it to the user.
Matches(r) ==
    /\ AsAge(age_range[1]) <= r.Age
    /\ r.Age <= AsAge(age_range[2])
    /\ r.Gender \in selected_genders
    /\ r.Smoking \in selected_smoking

\* The widgets hold their default values.
IsDefault ==
    /\ age_range = SliderDefault(df)
    /\ selected_genders = GenderOptions(df)
    /\ selected_smoking = SmokingOptions(df)

InView(r) == \E j \in 1..Len(filtered_df) : filtered_df[j] = r

\* C1: the filtered view is exactly the rows of the dataset whose age is in
\* the inclusive range [a, b], whose gender is selected and whose smoking
\* status is selected, in dataset order: no matching row is left out, no
\* other row is included, ages equal to a or to b are included.
FilterIsExactSubsequence ==
    Filtered =>
        /\ \A i \in 1..Len(df) : Matches(df[i]) <=> InView(df[i])
        /\ \A j \in 1..Len(filtered_df) :
              \E i \in 1..Len(df) : df[i] = filtered_df[j]
        /\ \A j, k \in 1..Len(filtered_df) :
              j < k => filtered_df[j].ID < filtered_df[k].ID

FilterKeepsBoundaryAges ==
    /\ Filtered
    /\ \E j \in 1..Len(filtered_df) : filtered_df[j].Age = AsAge(age_range[2])
    /\ \E j \in 1..Len(filtered_df) : filtered_df[j].Age = AsAge(age_range[1])
    /\ Len(filtered_df) < Len(df)

\* C2: with the three widgets at their defaults the filtered view has as
\* many rows as the whole dataset.
DefaultSelectionKeepsAllRows ==
    (Filtered /\ IsDefault) => Len(filtered_df) = Len(df)

Degenerate(d) ==
    \/ Len(d) = 0
    \/ Cardinality(Column(d, "Gender")) = 1
    \/ Cardinality(Column(d, "Age")) = 1
    \/ Cardinality(Column(d, "Stroke")) = 1

\* C3: a render pass over a degenerate filtered view (no rows, or a single
\* gender, age or stroke outcome) raises no error in any chart.
DegenerateViewRenders ==
    (Filtered /\ Degenerate(filtered_df)) => exception = "None"

\* C4: in the stroke-by-age table every age of the filtered view has a
\* count for outcome 0 and a count for outcome 1, and the two add up to the
\* number of filtered rows of that age.
StrokeByAgeHasBothOutcomes ==
    Built("stroke_age") =>
        \A a \in Column(filtered_df, "Age") :
            /\ a \in stroke_by_age.index
            /\ { 0, 1 } \subseteq DOMAIN stroke_by_age.cell[a]
            /\ stroke_by_age.cell[a][0] + stroke_by_age.cell[a][1]
                  = CountWhere(filtered_df, "Age", a)

\* C5: the three values of the hypertension / heart-disease pie add up to
\* the number of rows of the filtered view.
CountsSumToTotal ==
    Done("hyp_heart") => counts[1] + counts[2] + counts[3] = Len(filtered_df)

CountsOfMixedView ==
    /\ Done("hyp_heart")
    /\ counts[1] > 0
    /\ counts[2] > 0
    /\ Len(filtered_df) >= 2

\* C6: the KPI cards and the Insights values do not depend on the filter
\* selection: two passes over the same dataset with any two selections
\* display identical values, so a value the page shows is still shown,
\* unchanged, after any later pass.  The cards satisfy this; the Insights
\* values do not, because a pass whose selection makes px.bar raise at
\* line 88 displays no Insights at all.
SummaryIgnoresFilters ==
    [][/\ \A i \in 1..4 : kpi_cards[i] # <<>> => kpi_cards'[i] = kpi_cards[i]
       /\ insights # <<>> => insights' = insights]_vars

\* C7: the loaded dataset never changes: no filter change and no step of a
\* render pass alters its rows or field values.
DatasetReadOnly == [][df' = df]_vars

ChartsBuiltFromNarrowView ==
    /\ Done("bmi")
    /\ selected_genders # GenderOptions(df)
    /\ Len(filtered_df) >= 1
    /\ Len(filtered_df) < Len(df)
    /\ df = load_data(csv)

HasUnmappedCode(raw) ==
    \E i \in 1..Len(raw) :
        \/ raw[i].Gender \notin DOMAIN gender_map
        \/ raw[i].WorkType \notin DOMAIN work_type_map
        \/ raw[i].ResidenceType \notin DOMAIN residence_type_map
        \/ raw[i].Smoking \notin DOMAIN smoking_status_map

\* C8: a code outside a lookup table is loaded as an absent label, and a
\* dataset holding such a record is rendered without an error in any step.
UnmappedCodesNeverCrash ==
    HasUnmappedCode(csv) =>
        /\ \A i \in 1..Len(csv) :
              /\ csv[i].Gender \notin DOMAIN gender_map => df[i].Gender = NaN
              /\ csv[i].WorkType \notin DOMAIN work_type_map => df[i].WorkType = NaN
              /\ csv[i].ResidenceType \notin DOMAIN residence_type_map
                    => df[i].ResidenceType = NaN
              /\ csv[i].Smoking \notin DOMAIN smoking_status_map => df[i].Smoking = NaN
        /\ exception = "None"

Labelled(r) == r.Gender # NaN /\ r.Smoking # NaN

LabelledRows(d) == { i \in 1..Len(d) : Labelled(d[i]) }

\* C9: a record whose gender or smoking label is absent is in no filtered
\* view; the KPI cards count it, the chart tables never do.
AbsentLabelsNeverCharted ==
    /\ Filtered => \A j \in 1..Len(filtered_df) : Labelled(filtered_df[j])
    /\ Done("kpi_total") => kpi_cards[1] = << Len(df) >>
    /\ Done("gender") =>
          \A g \in DOMAIN gender_counts :
              gender_counts[g]
                 <= Cardinality({ i \in LabelledRows(df) : df[i].Gender = g })
    /\ Built("stroke_age") =>
          \A a \in stroke_by_age.index : \A s \in stroke_by_age.columns :
              stroke_by_age.cell[a][s]
                 <= Cardinality({ i \in LabelledRows(df) :
                                    df[i].Age = a /\ df[i].Stroke = s })
    /\ Done("hyp_heart") =>
          counts[1] + counts[2] + counts[3] <= Cardinality(LabelledRows(df))

AbsentLabelCountedOnlyByKpi ==
    /\ Done("gender")
    /\ \E i \in 1..Len(df) : ~Labelled(df[i])
    /\ Len(filtered_df) >= 1
    /\ kpi_cards[1] = << Len(df) >>
    /\ Len(df) > Len(filtered_df)
    /\ IsDefault

NeitherRows(d) ==
    { i \in 1..Len(d) : d[i].Hypertension = 0 /\ d[i].HeartDisease = 0 }

BothRows(d) ==
    { i \in 1..Len(d) : d[i].Hypertension = 1 /\ d[i].HeartDisease = 1 }

\* C10: the pie's Neither value is the number of filtered rows with neither
\* flag minus the number with both flags; it is the true neither-count
\* exactly when no filtered row has both flags and it is negative exactly
\* when the rows with both flags outnumber the rows with neither.
NeitherIsNeitherMinusBoth ==
    Done("hyp_heart") =>
        LET n == Cardinality(NeitherRows(filtered_df))
            b == Cardinality(BothRows(filtered_df))
        IN  /\ counts[3] = n - b
            /\ (counts[3] = n) <=> (b = 0)
            /\ (counts[3] < 0) <=> (b > n)

NeitherIsNegative ==
    /\ Done("hyp_heart")
    /\ counts[3] < 0

====
